---- MODULE Spec2Model ----
(***************************************************************************)
(* Model of the follow-up chat session of the data summarizer dashboard    *)
(* (src/app.py) and of the LLM orchestration functions it calls            *)
(* (src/agent.py).                                                          *)
(*                                                                          *)
(* Conventions.  A Python str that the code searches or lower-cases is a   *)
(* sequence of one-character strings.  A Python value that may be None is  *)
(* a sequence of length 0 (None) or 1 (the value).  A text assembled from  *)
(* pieces (+=, f-strings) is the sequence of its pieces.                    *)
(***************************************************************************)
EXTENDS Integers, Sequences, FiniteSets, TLC

VARIABLES followup_history, chart_history, token_count, df, summary,
          caption, notice, ask_shown, clear_shown, last, fn

vars == <<followup_history, chart_history, token_count, df, summary,
          caption, notice, ask_shown, clear_shown, last, fn>>

None == <<>>
Some(x) == <<x>>

(* ---------------------------------------------------------------------- *)
(* Bounds of the model                                                     *)
(* ---------------------------------------------------------------------- *)
MaxWords == 3
MaxCharts == 11
MaxPlaceholders == 1
MaxAlternate == 2
MaxCols == 5

(* ---------------------------------------------------------------------- *)
(* str.lower() and the substring test `kw in s`                            *)
(* ---------------------------------------------------------------------- *)
UpperCase == <<"A","B","C","D","E","F","G","H","I","J","K","L","M",
               "N","O","P","Q","R","S","T","U","V","W","X","Y","Z">>
LowerCase == <<"a","b","c","d","e","f","g","h","i","j","k","l","m",
               "n","o","p","q","r","s","t","u","v","w","x","y","z">>

LowerChar(c) ==
    IF \E i \in 1..Len(UpperCase) : UpperCase[i] = c
    THEN LowerCase[CHOOSE i \in 1..Len(UpperCase) : UpperCase[i] = c]
    ELSE c

Lower(s) == [i \in 1..Len(s) |-> LowerChar(s[i])]

InStr(kw, s) ==
    \E i \in 1..(Len(s) - Len(kw) + 1) :
        \A j \in 1..Len(kw) : s[i + j - 1] = kw[j]

AnyIn(kws, s) == \E kw \in kws : InStr(kw, s)

(* ---------------------------------------------------------------------- *)
(* detect_visualization_intent (src/app.py)                                *)
(* ---------------------------------------------------------------------- *)
creation_keywords ==
    { <<"c","r","e","a","t","e">>,
      <<"g","e","n","e","r","a","t","e">>,
      <<"m","a","k","e">>,
      <<"d","r","a","w">>,
      <<"b","u","i","l","d">>,
      <<"s","h","o","w"," ","m","e"," ","a">>,
      <<"c","a","n"," ","y","o","u"," ","p","l","o","t">>,
      <<"c","a","n"," ","y","o","u"," ","c","r","e","a","t","e">>,
      <<"a","n","o","t","h","e","r">>,
      <<"d","i","f","f","e","r","e","n","t">>,
      <<"n","e","w">>,
      <<"a","l","t","e","r","n","a","t","i","v","e">> }

question_keywords ==
    { <<"w","h","a","t"," ","i","s"," ","t","h","e">>,
      <<"w","h","a","t","'","s"," ","t","h","e">>,
      <<"e","x","p","l","a","i","n">>,
      <<"w","h","y">>,
      <<"h","o","w"," ","d","o","e","s">>,
      <<"t","e","l","l"," ","m","e"," ","a","b","o","u","t">>,
      <<"d","e","s","c","r","i","b","e">> }

code_keywords_without_python ==
    { <<"c","o","d","e">>,
      <<"s","c","r","i","p","t">>,
      <<"s","h","o","w"," ","m","e"," ","t","h","e"," ","c","o","d","e">> }

code_keywords ==
    { <<"c","o","d","e">>,
      <<"p","y","t","h","o","n">>,
      <<"s","c","r","i","p","t">>,
      <<"s","h","o","w"," ","m","e"," ","t","h","e"," ","c","o","d","e">> }

explicit_chart_words ==
    { <<"p","l","o","t">>,
      <<"c","h","a","r","t">>,
      <<"g","r","a","p","h">> }

new_request_words_without_another ==
    { <<"d","i","f","f","e","r","e","n","t">>,
      <<"n","e","w">> }

new_request_words ==
    { <<"a","n","o","t","h","e","r">>,
      <<"d","i","f","f","e","r","e","n","t">>,
      <<"n","e","w">> }

viz_keywords ==
    { <<"p","l","o","t">>,
      <<"c","h","a","r","t">>,
      <<"g","r","a","p","h">>,
      <<"v","i","s","u","a","l","i","z">>,
      <<"s","c","a","t","t","e","r">>,
      <<"h","i","s","t","o","g","r","a","m">>,
      <<"h","e","a","t","m","a","p">>,
      <<"b","o","x">>,
      <<"b","a","r">>,
      <<"l","i","n","e">> }

detect_visualization_intent(question) ==
    LET question_lower == Lower(question)
        has_creation_keyword == AnyIn(creation_keywords, question_lower)
        has_viz_keyword == AnyIn(viz_keywords, question_lower)
    IN  IF AnyIn(code_keywords, question_lower) THEN FALSE
        ELSE IF AnyIn(question_keywords, question_lower)
             THEN AnyIn(explicit_chart_words, question_lower)
                  /\ AnyIn(new_request_words, question_lower)
             ELSE has_creation_keyword /\ has_viz_keyword

(* ---------------------------------------------------------------------- *)
(* Questions typed by the user: words of a small vocabulary joined by      *)
(* single spaces.                                                          *)
(* ---------------------------------------------------------------------- *)
W_another == <<"a","n","o","t","h","e","r">>
W_plot == <<"p","l","o","t">>
W_Plot == <<"P","l","o","t">>
W_heatmap == <<"h","e","a","t","m","a","p">>
W_explain == <<"e","x","p","l","a","i","n">>
W_python == <<"p","y","t","h","o","n">>
W_Script == <<"S","c","r","i","p","t">>
W_create == <<"c","r","e","a","t","e">>
W_data == <<"d","a","t","a">>
W_new == <<"n","e","w">>

Vocab == { W_another, W_plot, W_Plot, W_heatmap, W_explain, W_python, W_Script, W_create, W_data, W_new }

RECURSIVE JoinWords(_)
JoinWords(ws) ==
    IF Len(ws) = 0 THEN <<>>
    ELSE IF Len(ws) = 1 THEN ws[1]
    ELSE ws[1] \o <<" ">> \o JoinWords(Tail(ws))

AllQuestions ==
    { JoinWords(ws) : ws \in UNION { [1..n -> Vocab] : n \in 1..MaxWords } }

(* ---------------------------------------------------------------------- *)
(* Python dict: a function from keys to values; d.get(k) and d.get(k, v)   *)
(* ---------------------------------------------------------------------- *)
Get(d, k) == IF k \in DOMAIN d THEN d[k] ELSE None

GetDefault(d, k, default) == IF k \in DOMAIN d THEN d[k] ELSE default

(* ---------------------------------------------------------------------- *)
(* src/agent.py: names bound in the module namespace after import.         *)
(* `from anthropic import Anthropic` binds Anthropic only.                 *)
(* ---------------------------------------------------------------------- *)
ModuleGlobalsImportAnthropic ==
    { "anthropic", "Dict", "Any", "Anthropic", "logging", "load_dotenv",
      "client", "logger", "description", "matplotlib_description",
      "summary_tool", "summarize_with_claude", "ask_followup_question",
      "build_context_for_followup" }

ModuleGlobals ==
    { "Dict", "Any", "Anthropic", "logging", "load_dotenv", "client",
      "logger", "description", "matplotlib_description", "summary_tool",
      "summarize_with_claude", "ask_followup_question",
      "build_context_for_followup" }

NameBound(name) == name \in ModuleGlobals

(* ---------------------------------------------------------------------- *)
(* The LLM boundary, client.messages.create: it either returns a response  *)
(* (content blocks and usage) or raises.  An exception is its set of       *)
(* classes (for isinstance), its status_code and str(e).                   *)
(* ---------------------------------------------------------------------- *)
TextBlock(t) == [type |-> "text", text |-> t]

ToolUseBlock(name, input) == [type |-> "tool_use", name |-> name, input |-> input]

Response(content, input_tokens, output_tokens) ==
    [ok |-> TRUE, content |-> content,
     usage |-> [input_tokens |-> input_tokens, output_tokens |-> output_tokens]]

Failure(classes, status_code, text) ==
    [ok |-> FALSE, classes |-> classes, status_code |-> status_code, text |-> text]

StatusFailure(code) ==
    Failure({"APIStatusError", "APIError", "Exception"}, code, "status error")

ConnectionFailure ==
    Failure({"APIConnectionError", "APIError", "Exception"}, 0, "Connection error.")

TimeoutFailure ==
    Failure({"APITimeoutError", "APIConnectionError", "APIError", "Exception"},
            0, "Request timed out.")

RateLimitFailure ==
    Failure({"RateLimitError", "APIStatusError", "APIError", "Exception"},
            429, "rate limited")

UnexpectedFailure == Failure({"Exception"}, 0, "boom")

StatusCodes == {400, 401, 403, 404, 500, 529}

Failures ==
    {ConnectionFailure, TimeoutFailure, RateLimitFailure, UnexpectedFailure}
    \cup { StatusFailure(c) : c \in StatusCodes }

Chart1 == [type |-> "scatter", x |-> "a", y |-> "b"]
Chart2 == [type |-> "histogram", x |-> "a"]

FullInput ==
    [text |-> Some(<<"tool summary">>), chart_1 |-> Some(Chart1),
     chart_2 |-> Some(Chart2), matplotlib_code |-> Some(<<"fig = plot(df)">>)]

SummaryInput ==
    [text |-> Some(<<"tool summary">>), next_steps |-> Some(<<"next">>),
     chart_1 |-> Some(Chart1), chart_2 |-> Some(Chart2),
     matplotlib_code |-> Some(<<"fig = plot(df)">>)]

TextResponse == Response(<<TextBlock(<<"answer">>)>>, 700, 300)

ToolResponse ==
    Response(<<ToolUseBlock("generate_summary", FullInput)>>, 22000, 3000)

SummaryResponse ==
    Response(<<ToolUseBlock("generate_summary", SummaryInput)>>, 900, 600)

(* ---------------------------------------------------------------------- *)
(* Outcome of a Python call: a returned value or a raised exception.       *)
(* request is what the call sent to client.messages.create, if anything.   *)
(* ---------------------------------------------------------------------- *)
Returned(request, value) == [request |-> request, raised |-> None, ret |-> Some(value)]

Raised(request, exc) == [request |-> request, raised |-> Some(exc), ret |-> None]

(* User-facing messages of the except clauses (the leading warning sign    *)
(* of each literal is left out).                                           *)
ConnectionMessage ==
    <<"Connection error: Unable to reach the AI service. Please check your internet connection and try again.">>

RateLimitMessage ==
    <<"Rate limit reached: Too many requests. Please wait a moment and try again.">>

UnavailableMessage ==
    <<"Service temporarily unavailable: The AI service is experiencing issues. Please try again in a few moments.">>

GenericStatusMessage(code) ==
    <<"Error ", ToString(code), ": An unexpected error occurred. Please try again.">>

UnexpectedMessage(text) ==
    <<"Unexpected error: ", text,
      ". Please try again or contact support if the issue persists.">>

FollowupInvalidRequestMessage ==
    <<"Invalid request: There was an issue with the request format. Please try rephrasing your question.">>

FollowupAuthMessage ==
    <<"Authentication error: API key is invalid. Please contact support.">>

SummaryInvalidRequestMessage ==
    <<"Invalid request: There was an issue analyzing this dataset. Please try a different dataset.">>

SummaryAuthMessage ==
    <<"Authentication error: API key is invalid. Please check your configuration.">>

NoToolUseMessage == <<"Unable to generate summary. Please try again.">>

FollowupErrorResult(text) ==
    [text |-> Some(text), chart_1 |-> None, chart_2 |-> None,
     matplotlib_code |-> None, error |-> TRUE]

SummaryErrorResult(text) ==
    [text |-> Some(text), next_steps |-> Some(<<>>), chart_1 |-> None,
     chart_2 |-> None, matplotlib_code |-> None, error |-> TRUE]

(* The except clauses of ask_followup_question, tried in source order.     *)
(* Evaluating `anthropic.APIConnectionError` looks the name anthropic up   *)
(* in the module namespace first.                                          *)
FollowupExcept(request, e) ==
    IF ~NameBound("anthropic") THEN Raised(request, "NameError")
    ELSE IF "APIConnectionError" \in e.classes
         THEN Returned(request, <<FollowupErrorResult(ConnectionMessage), 0>>)
    ELSE IF "RateLimitError" \in e.classes
         THEN Returned(request, <<FollowupErrorResult(RateLimitMessage), 0>>)
    ELSE IF "APIStatusError" \in e.classes
         THEN LET error_msg ==
                      IF e.status_code = 400 THEN FollowupInvalidRequestMessage
                      ELSE IF e.status_code = 401 THEN FollowupAuthMessage
                      ELSE IF e.status_code >= 500 THEN UnavailableMessage
                      ELSE GenericStatusMessage(e.status_code)
              IN  Returned(request, <<FollowupErrorResult(error_msg), 0>>)
    ELSE Returned(request, <<FollowupErrorResult(UnexpectedMessage(e.text)), 0>>)

(* The same for summarize_with_claude.                                     *)
SummaryExcept(request, e) ==
    IF ~NameBound("anthropic") THEN Raised(request, "NameError")
    ELSE IF "APIConnectionError" \in e.classes
         THEN Returned(request, <<SummaryErrorResult(ConnectionMessage), 0>>)
    ELSE IF "RateLimitError" \in e.classes
         THEN Returned(request, <<SummaryErrorResult(RateLimitMessage), 0>>)
    ELSE IF "APIStatusError" \in e.classes
         THEN LET error_msg ==
                      IF e.status_code = 400 THEN SummaryInvalidRequestMessage
                      ELSE IF e.status_code = 401 THEN SummaryAuthMessage
                      ELSE IF e.status_code >= 500 THEN UnavailableMessage
                      ELSE GenericStatusMessage(e.status_code)
              IN  Returned(request, <<SummaryErrorResult(error_msg), 0>>)
    ELSE Returned(request, <<SummaryErrorResult(UnexpectedMessage(e.text)), 0>>)

(* ---------------------------------------------------------------------- *)
(* ask_followup_question (src/agent.py)                                    *)
(* ---------------------------------------------------------------------- *)
PrimingInstructions ==
    "You have access to a tool called 'generate_summary' that can create visualizations. When the user asks for charts or plots, you MUST use the generate_summary tool to return executable matplotlib code. Please help me analyze this data."

PrimingAcknowledgement ==
    "I understand the dataset and will use the generate_summary tool when you need visualizations. What would you like to know?"

FollowupMaxTokens == 3000

SummaryMaxTokens == 1500

BuildMessagesQuestionFirst(question, conversation_history, df_context) ==
    << [role |-> "user", content |-> Some(df_context \o <<PrimingInstructions>>)],
       [role |-> "assistant", content |-> Some(<<PrimingAcknowledgement>>)] >>
    \o << [role |-> "user", content |-> Some(question)] >>
    \o [i \in 1..Len(conversation_history) |->
           [role |-> conversation_history[i].role,
            content |-> conversation_history[i].content]]

BuildMessages(question, conversation_history, df_context) ==
    << [role |-> "user", content |-> Some(df_context \o <<PrimingInstructions>>)],
       [role |-> "assistant", content |-> Some(<<PrimingAcknowledgement>>)] >>
    \o [i \in 1..Len(conversation_history) |->
           [role |-> conversation_history[i].role,
            content |-> conversation_history[i].content]]
    \o << [role |-> "user", content |-> Some(question)] >>

(* The list object passed as conversation_history, after the call: the     *)
(* function appends to its own list only.                                  *)
HistoryAfterCall(question, conversation_history, df_context) == conversation_history

ToolChoiceAlwaysAuto(force_tool) == [type |-> "auto", name |-> ""]

ToolChoice(force_tool) ==
    IF force_tool THEN [type |-> "tool", name |-> "generate_summary"]
    ELSE [type |-> "auto", name |-> ""]

EmptyResult ==
    [text |-> Some(<<>>), chart_1 |-> None, chart_2 |-> None,
     matplotlib_code |-> None, error |-> FALSE]

TotalTokensOutputOnly(usage) == usage.output_tokens

TotalTokens(usage) == usage.input_tokens + usage.output_tokens

(* The loop over response.content.  `result["text"] += block.text` raises  *)
(* TypeError when an earlier tool_use block has set the text to None.      *)
RECURSIVE ParseBlocks(_, _)
ParseBlocks(blocks, result) ==
    IF Len(blocks) = 0 THEN [raised |-> None, result |-> result]
    ELSE LET block == Head(blocks) IN
         IF block.type = "text"
         THEN IF result.text = None
              THEN [raised |-> Some("TypeError"), result |-> result]
              ELSE ParseBlocks(Tail(blocks),
                       [result EXCEPT !.text = Some(result.text[1] \o block.text)])
         ELSE IF block.type = "tool_use" /\ block.name = "generate_summary"
         THEN ParseBlocks(Tail(blocks),
                  [result EXCEPT
                      !.text = GetDefault(block.input, "text", Some(<<>>)),
                      !.chart_1 = Get(block.input, "chart_1"),
                      !.chart_2 = Get(block.input, "chart_2"),
                      !.matplotlib_code = Get(block.input, "matplotlib_code")])
         ELSE ParseBlocks(Tail(blocks), result)

ask_followup_question(question, conversation_history, df_context, force_tool, reply) ==
    LET messages == BuildMessages(question, conversation_history, df_context)
        request == Some([max_tokens |-> FollowupMaxTokens,
                         tool_choice |-> ToolChoice(force_tool),
                         messages |-> messages])
    IN  IF ~reply.ok THEN FollowupExcept(request, reply)
        ELSE LET parsed == ParseBlocks(reply.content, EmptyResult)
                 token_count_ == TotalTokens(reply.usage)
             IN  IF parsed.raised # None
                 THEN FollowupExcept(request,
                          Failure({parsed.raised[1], "Exception"}, 0,
                                  "unsupported operand type(s) for +=: 'NoneType' and 'str'"))
                 ELSE Returned(request, <<parsed.result, token_count_>>)

(* ---------------------------------------------------------------------- *)
(* summarize_with_claude (src/agent.py).  A returned value is tagged with  *)
(* its Python type: the tool input is returned as a dict, every other      *)
(* return statement builds a tuple (dict, 0).                              *)
(* ---------------------------------------------------------------------- *)
DictValue(d) == [pytype |-> "dict", dict |-> d]

TupleValue(t) == [pytype |-> "tuple", dict |-> t[1]]

RECURSIVE FirstSummaryToolUse(_)
FirstSummaryToolUse(blocks) ==
    IF Len(blocks) = 0 THEN None
    ELSE IF Head(blocks).type = "tool_use" /\ Head(blocks).name = "generate_summary"
         THEN Some(Head(blocks).input)
         ELSE FirstSummaryToolUse(Tail(blocks))

summarize_with_claude(summary_text, reply) ==
    LET request == Some([max_tokens |-> SummaryMaxTokens,
                         tool_choice |-> [type |-> "unset", name |-> ""],
                         messages |-> << [role |-> "user",
                                          content |-> Some(<<"Analyze this dataset summary and provide insights:">> \o summary_text)] >>])
    IN  IF ~reply.ok
        THEN LET out == SummaryExcept(request, reply)
             IN  IF out.raised # None THEN out
                 ELSE Returned(request, TupleValue(out.ret[1]))
        ELSE LET found == FirstSummaryToolUse(reply.content)
             IN  IF found # None THEN Returned(request, DictValue(found[1]))
                 ELSE Returned(request,
                          TupleValue(<<SummaryErrorResult(NoToolUseMessage), 0>>))

(* ---------------------------------------------------------------------- *)
(* build_context_for_followup (src/agent.py).  A dataset is its row count  *)
(* and its columns in order; a column is its name, dtype and cell values.  *)
(* ---------------------------------------------------------------------- *)
CategoricalThreshold == 20

CategoricalCap == 3

Range(f) == { f[i] : i \in DOMAIN f }

NUnique(col) == Cardinality(Range(col.values))

ValueCounts(col) ==
    [v \in Range(col.values) |->
        Cardinality({ i \in DOMAIN col.values : col.values[i] = v })]

IsCategorical(col) == col.dtype = "object" \/ NUnique(col) < CategoricalThreshold

categorical_cols(dataset) == SelectSeq(dataset.columns, IsCategorical)

DistributionColsUncapped(dataset) == categorical_cols(dataset)

DistributionCols(dataset) ==
    LET cats == categorical_cols(dataset)
    IN  SubSeq(cats, 1, IF Len(cats) < CategoricalCap THEN Len(cats) ELSE CategoricalCap)

(* For each shown column: its name, " distribution:" and the rendered     *)
(* value counts.                                                           *)
RECURSIVE DistributionParts(_)
DistributionParts(cols) ==
    IF Len(cols) = 0 THEN <<>>
    ELSE <<Head(cols).name, " distribution:", ToString(ValueCounts(Head(cols)))>>
         \o DistributionParts(Tail(cols))

build_context_for_followup(dataset) ==
    LET cols == dataset.columns
        shown == DistributionCols(dataset)
    IN  << "Dataset: ", ToString(dataset.nrows), " rows, ", ToString(Len(cols)), " columns" >>
        \o <<"Columns: ">> \o [i \in 1..Len(cols) |-> cols[i].name]
        \o <<"Data types:">> \o [i \in 1..Len(cols) |-> cols[i].dtype]
        \o <<"Numeric column summary:">>
        \o (IF Len(categorical_cols(dataset)) > 0
            THEN <<"Potential grouping columns: ">>
                 \o [i \in 1..Len(categorical_cols(dataset)) |-> categorical_cols(dataset)[i].name]
            ELSE <<>>)
        \o DistributionParts(shown)
        \o <<"IMPORTANT FOR CODE GENERATION:",
             "A pandas DataFrame named 'df' is available in the execution environment.">>

SampleDataset ==
    [nrows |-> 4,
     columns |-> << [name |-> "width", dtype |-> "float64", values |-> <<1, 2, 2, 3>>],
                    [name |-> "species", dtype |-> "object", values |-> <<"a", "a", "b", "b">>] >>]

(* ---------------------------------------------------------------------- *)
(* src/app.py: the "Dataset Prompt" section of the page script             *)
(* ---------------------------------------------------------------------- *)
MaxTurns == 10

MaxTokens == 25000

WarnTurns == 8

WarnTokens == 20000

turn_count(history) == Len(history) \div 2

LimitReached(turns, tokens) == turns >= MaxTurns \/ tokens >= MaxTokens

NearLimitBoth(turns, tokens) == turns >= WarnTurns /\ tokens >= WarnTokens

NearLimit(turns, tokens) == turns >= WarnTurns \/ tokens >= WarnTokens

(* Lines 372-380: the caption and the notice drawn under "Dataset Prompt". *)
Caption(turns, tokens) == [turn_count |-> turns, token_count |-> tokens]

Notice(turns, tokens) ==
    IF LimitReached(turns, tokens) THEN "error"
    ELSE IF NearLimit(turns, tokens) THEN "warning"
    ELSE "none"

AskPermittedOffByOne(turns, tokens) == turns <= MaxTurns /\ tokens <= MaxTokens

AskPermitted(turns, tokens) == turns < MaxTurns /\ tokens < MaxTokens

UserTurn(followup) == [role |-> "user", content |-> Some(followup)]

AssistantTurnWrongRole(followup_result) ==
    [role |-> "user", content |-> Get(followup_result, "text")]

AssistantTurn(followup_result) ==
    [role |-> "assistant", content |-> Get(followup_result, "text")]

ChartRecord(followup, followup_result) ==
    [question |-> followup,
     code |-> Get(followup_result, "matplotlib_code"),
     chart_1 |-> Get(followup_result, "chart_1"),
     chart_2 |-> Get(followup_result, "chart_2")]

(* Conversation rendering loop: the chart_history entry looked up for the  *)
(* message at Python index i (None when the index is out of range), and    *)
(* whether a chart is drawn for it.                                        *)
assistant_response_num(i) == (i - 1) \div 2

ChartLookup(charts, i) ==
    IF assistant_response_num(i) < Len(charts)
    THEN charts[assistant_response_num(i) + 1]
    ELSE None

ChartDrawn(charts, i) ==
    /\ ChartLookup(charts, i) # None
    /\ ChartLookup(charts, i)[1].code # None
    /\ ChartLookup(charts, i)[1].code # Some(<<>>)

(* ---------------------------------------------------------------------- *)
(* The session.  followup_history, chart_history, token_count and df are   *)
(* st.session_state; ask_shown and clear_shown say which buttons the last  *)
(* script run put on the page, caption and notice what it drew above them; *)
(* last records what the last script run did   *)
(* (the event that started it, the value of the line-382 test, the request *)
(* sent to the LLM boundary and its reply, the exception that escaped).    *)
(* ---------------------------------------------------------------------- *)
NoFn == [name |-> "none"]

Run(event, question, permitted, request, reply, raised) ==
    [event |-> event, question |-> question, permitted |-> permitted,
     request |-> request, reply |-> reply, raised |-> raised]

PlainRun(event, permitted) == Run(event, None, permitted, None, None, None)

Q_another_plot == W_another \o <<" ">> \o W_plot

Q_explain_data == W_explain \o <<" ">> \o W_data

EmptyQuestion == <<>>

SessionQuestions == {Q_another_plot, Q_explain_data, EmptyQuestion}

SessionReplies == {TextResponse, ToolResponse, ConnectionFailure, StatusFailure(401)}

Datasets == {SampleDataset}

(* Tabulations of the two pure functions over the session's inputs.        *)
SessionIntent == [q \in SessionQuestions |-> detect_visualization_intent(q)]

SessionContext == [d \in Datasets |-> build_context_for_followup(d)]

Placeholders(charts) == Cardinality({ i \in DOMAIN charts : charts[i] = None })

Asked(charts, followup) ==
    Cardinality({ i \in DOMAIN charts :
                    charts[i] # None /\ charts[i][1].question = followup })

SessionInit ==
    /\ followup_history = <<>>
    /\ chart_history = <<>>
    /\ token_count = 0
    /\ summary = None
    /\ caption = Caption(0, 0)
    /\ notice = "none"
    /\ ask_shown = TRUE
    /\ clear_shown = FALSE
    /\ last = PlainRun("run", TRUE)

Init ==
    /\ SessionInit
    /\ df = None
    /\ fn = NoFn

(* A script run that handles no button: the page is drawn from the state.  *)
Render(history, tokens) ==
    /\ caption' = Caption(turn_count(history), tokens)
    /\ notice' = Notice(turn_count(history), tokens)
    /\ clear_shown' = LimitReached(turn_count(history), tokens)
    /\ ask_shown' = AskPermitted(turn_count(history), tokens)

(* The user picks a dataset (upload or sample); the script stores it.      *)
SelectDataset ==
    /\ \E d \in Datasets : df' = Some(d)
    /\ Render(followup_history, token_count)
    /\ last' = PlainRun("run", AskPermitted(turn_count(followup_history), token_count))
    /\ UNCHANGED <<followup_history, chart_history, token_count, summary, fn>>

(* Any other interaction reruns the script without a button click.         *)
Rerun ==
    /\ Render(followup_history, token_count)
    /\ last' = PlainRun("run", AskPermitted(turn_count(followup_history), token_count))
    /\ UNCHANGED <<followup_history, chart_history, token_count, df, summary, fn>>

(* The user clicks "Clear Chat History" (lines 374-378).                   *)
ClearChatHistory ==
    /\ clear_shown
    /\ IF LimitReached(turn_count(followup_history), token_count)
       THEN /\ followup_history' = <<>>
            /\ Render(<<>>, token_count)
       ELSE /\ UNCHANGED followup_history
            /\ Render(followup_history, token_count)
    /\ last' = PlainRun("clear", AskPermitted(turn_count(followup_history), token_count))
    /\ UNCHANGED <<chart_history, token_count, df, summary, fn>>

(* The user clicks "Ask Claude" with followup in the text input; reply is  *)
(* what the LLM boundary does if it is called (lines 370-433).             *)
AskClaude(followup, reply) ==
    /\ ask_shown
    /\ Len(chart_history) < MaxCharts
    /\ Len(followup) = 0 => Placeholders(chart_history) < MaxPlaceholders
    /\ followup = Q_explain_data => Asked(chart_history, followup) < MaxAlternate
    /\ LET turns == turn_count(followup_history)
           permitted == AskPermitted(turns, token_count)
       IN
       IF ~permitted
       THEN /\ Render(followup_history, token_count)
            /\ last' = Run("ask", Some(followup), FALSE, None, None, None)
            /\ UNCHANGED <<followup_history, chart_history, token_count>>
       ELSE IF Len(followup) > 0
       THEN /\ Render(followup_history, token_count)
            /\ IF df = None
               THEN /\ last' = Run("ask", Some(followup), TRUE, None, None, Some("TypeError"))
                    /\ UNCHANGED <<followup_history, chart_history, token_count>>
               ELSE LET df_context == SessionContext[df[1]]
                        force_tool == SessionIntent[followup]
                        out == ask_followup_question(followup, followup_history,
                                                     df_context, force_tool, reply)
                    IN  /\ last' = Run("ask", Some(followup), TRUE, out.request,
                                       Some(reply), out.raised)
                        /\ IF out.raised # None
                           THEN UNCHANGED <<followup_history, chart_history, token_count>>
                           ELSE LET followup_result == out.ret[1][1]
                                    token_delta == out.ret[1][2]
                                IN  /\ token_count' = token_count + token_delta
                                    /\ followup_history' =
                                           Append(Append(HistoryAfterCall(followup, followup_history, df_context),
                                                         UserTurn(followup)),
                                                  AssistantTurn(followup_result))
                                    /\ chart_history' =
                                           Append(chart_history,
                                                  Some(ChartRecord(followup, followup_result)))
       ELSE /\ chart_history' = Append(chart_history, None)
            /\ Render(followup_history, token_count)
            /\ last' = Run("ask", Some(followup), TRUE, None, None, None)
            /\ UNCHANGED <<followup_history, token_count>>
    /\ UNCHANGED <<df, summary, fn>>

Next ==
    \/ SelectDataset
    \/ Rerun
    \/ ClearChatHistory
    \/ \E followup \in SessionQuestions, reply \in SessionReplies : AskClaude(followup, reply)

Spec == Init /\ [][Next]_vars

(* ---------------------------------------------------------------------- *)
(* Properties of the session (specification Spec)                          *)
(* ---------------------------------------------------------------------- *)
AssistantTurns(history) ==
    Cardinality({ i \in DOMAIN history : history[i].role = "assistant" })

Blocked == LimitReached(turn_count(followup_history), token_count)

CallFailed(run) == run.event = "ask" /\ run.reply # None /\ ~run.reply[1].ok

(* C1: in every reachable session state the number of entries of           *)
(* chart_history equals the number of assistant turns in followup_history. *)
C1_ChartsMatchAssistantTurns ==
    Len(chart_history) = AssistantTurns(followup_history)

(* C2: for every assistant turn, at Python index 2*i+1, the renderer looks *)
(* up chart_history[i], and that entry is either absent or the record of   *)
(* the same exchange: its question is the content of the user turn at      *)
(* index 2*i.                                                              *)
C2_ChartBelongsToExchange ==
    \A i \in 0..(turn_count(followup_history) - 1) :
        /\ assistant_response_num(2 * i + 1) = i
        /\ LET chart == ChartLookup(chart_history, 2 * i + 1)
           IN  chart # None =>
                   Some(chart[1].question) = followup_history[2 * i + 1].content

(* C3: followup_history has even length and its roles alternate user,      *)
(* assistant, user, assistant, ... starting with user.                     *)
C3_RolesAlternate ==
    /\ Len(followup_history) % 2 = 0
    /\ \A i \in DOMAIN followup_history :
           followup_history[i].role = (IF i % 2 = 1 THEN "user" ELSE "assistant")

(* C3 witness: an exchange stored after a full conversation was cleared.   *)
C3_Witness ==
    /\ Len(followup_history) = 2
    /\ Len(chart_history) > MaxTurns
    /\ last.event = "ask"

(* C4: a script run that starts at a limit (turn_count >= 10 or            *)
(* token_count >= 25000) sends no request to the LLM boundary.             *)
C4_NoCallAtLimit ==
    [][Blocked => last'.request = None]_vars

(* C4 witness: the user clicked Ask at a limit and the click was rejected. *)
C4_Witness ==
    /\ Blocked
    /\ last.event = "ask"
    /\ ~last.permitted
    /\ last.request = None

(* C5: after Clear Chat History the turn sequence is empty, the token      *)
(* counter is 0 and Ask is permitted again, whichever limit had blocked    *)
(* the session.                                                            *)
C5_ClearResetsSession ==
    last.event = "clear" =>
        /\ followup_history = <<>>
        /\ token_count = 0
        /\ AskPermitted(turn_count(followup_history), token_count)
        /\ ask_shown

(* C6: an Ask whose LLM call failed leaves followup_history, chart_history *)
(* and token_count as they were, and turns are appended only by an Ask     *)
(* whose call succeeded.                                                   *)
C6_FailedCallCommitsNothing ==
    [][ /\ CallFailed(last') =>
             UNCHANGED <<followup_history, chart_history, token_count>>
        /\ Len(followup_history') > Len(followup_history) =>
             (last'.event = "ask" /\ last'.reply # None /\ last'.reply[1].ok)
      ]_vars

(* C6 witness: a failed call in a session that already holds an exchange.  *)
C6_Witness ==
    /\ CallFailed(last)
    /\ Len(followup_history) > 0
    /\ token_count > 0

(* ---------------------------------------------------------------------- *)
(* Specification SpecIntent: detect_visualization_intent applied to every  *)
(* question of at most MaxWords words of Vocab.                            *)
(* ---------------------------------------------------------------------- *)
InitIntent ==
    /\ SessionInit
    /\ df = None
    /\ fn \in { [name |-> "detect_visualization_intent", question |-> q,
                 done |-> FALSE, result |-> FALSE] : q \in AllQuestions }

DetectIntent ==
    /\ fn.name = "detect_visualization_intent"
    /\ ~fn.done
    /\ fn' = [fn EXCEPT !.done = TRUE,
                        !.result = detect_visualization_intent(fn.question)]
    /\ UNCHANGED <<followup_history, chart_history, token_count, df, summary,
                   caption, notice, ask_shown, clear_shown, last>>

NextIntent == DetectIntent

SpecIntent == InitIntent /\ [][NextIntent]_vars

ContainsAnotherAndPlot(question) ==
    /\ InStr(<<"a","n","o","t","h","e","r">>, question)
    /\ InStr(<<"p","l","o","t">>, question)

HasCodeKeyword(question) ==
    \/ InStr(<<"c","o","d","e">>, Lower(question))
    \/ InStr(<<"p","y","t","h","o","n">>, Lower(question))
    \/ InStr(<<"s","c","r","i","p","t">>, Lower(question))

(* C9 as stated: every question containing both "another" and "plot" is    *)
(* classified true, whatever other keywords it contains.                   *)
C9_AnotherPlotAlwaysTrue ==
    (fn.done /\ ContainsAnotherAndPlot(Lower(fn.question))) => fn.result = TRUE

(* C9 amended: every question containing both "another" and "plot" and no  *)
(* code keyword is classified true, whatever question, creation or chart   *)
(* keywords it also contains.                                              *)
C9_AnotherPlotTrueWithoutCodeKeyword ==
    (fn.done /\ ContainsAnotherAndPlot(Lower(fn.question)) /\ ~HasCodeKeyword(fn.question))
        => fn.result = TRUE

(* C9 witness: "another" and "plot" next to a question keyword.            *)
C9_Witness ==
    /\ fn.done
    /\ ContainsAnotherAndPlot(Lower(fn.question))
    /\ ~HasCodeKeyword(fn.question)
    /\ InStr(<<"e","x","p","l","a","i","n">>, Lower(fn.question))
    /\ fn.result = TRUE

(* C10: every question containing a code keyword is classified false, for  *)
(* every combination of creation, question and chart keywords.             *)
C10_CodeKeywordFalse ==
    (fn.done /\ HasCodeKeyword(fn.question)) => fn.result = FALSE

(* C10 witness: a code keyword next to "another", "plot" and "explain".    *)
C10_Witness ==
    /\ fn.done
    /\ HasCodeKeyword(fn.question)
    /\ ContainsAnotherAndPlot(Lower(fn.question))
    /\ fn.result = FALSE

(* ---------------------------------------------------------------------- *)
(* Specification SpecBoundary: one call of ask_followup_question, or one   *)
(* click on "Analyze with Claude" (app.py lines 264-280), for every reply  *)
(* of the LLM boundary.  fn holds the call's arguments, the reply, the     *)
(* outcome of the agent function and the exception that reaches the page   *)
(* script.                                                                 *)
(* ---------------------------------------------------------------------- *)
NoOut == [request |-> None, raised |-> None, ret |-> None]

MixedResponse ==
    Response(<<TextBlock(<<"Here is the chart.">>),
               ToolUseBlock("generate_summary", FullInput)>>, 1200, 800)

(* Tool inputs in which each field is given, null or left out.             *)
InputFields == {"text", "chart_1", "chart_2", "matplotlib_code"}

ShapedInput(shape) ==
    [k \in { f \in InputFields : shape[f] # "omitted" } |->
        IF shape[k] = "null" THEN None ELSE FullInput[k]]

ToolInputs ==
    { ShapedInput(shape) : shape \in [InputFields -> {"value", "null", "omitted"}] }

ShapedResponses ==
    { Response(<<ToolUseBlock("generate_summary", input)>>, 1200, 800) :
          input \in ToolInputs }
    \cup
    { Response(<<TextBlock(<<"Here is the chart.">>),
                ToolUseBlock("generate_summary", input)>>, 1200, 800) :
          input \in ToolInputs }
    \cup
    { Response(<<ToolUseBlock("generate_summary", input),
                TextBlock(<<"Done.">>)>>, 1200, 800) :
          input \in ToolInputs }

FollowupResponses == {TextResponse, ToolResponse, MixedResponse} \cup ShapedResponses

SummaryResponses == {SummaryResponse, TextResponse}

History1 ==
    << UserTurn(Q_explain_data),
       [role |-> "assistant", content |-> Some(<<"answer">>)] >>

History2 ==
    History1 \o << UserTurn(Q_another_plot),
                   [role |-> "assistant", content |-> Some(<<"tool summary">>)] >>

Histories == {<<>>, History1, History2}

PendingCall(name, question, history, force_tool, reply) ==
    [name |-> name, question |-> question, history |-> history,
     force_tool |-> force_tool, reply |-> reply,
     history_after |-> history,
     done |-> FALSE, out |-> NoOut, ui_raised |-> None]

InitBoundary ==
    /\ SessionInit
    /\ df \in { Some(d) : d \in Datasets }
    /\ fn \in { PendingCall("ask_followup_question", q, h, b, r) :
                    q \in {Q_another_plot, Q_explain_data}, h \in Histories,
                    b \in BOOLEAN, r \in Failures \cup FollowupResponses }
              \cup
              { PendingCall("summarize_with_claude", <<>>, <<>>, FALSE, r) :
                    r \in Failures \cup SummaryResponses }

CallFollowup ==
    /\ fn.name = "ask_followup_question"
    /\ ~fn.done
    /\ LET out == ask_followup_question(fn.question, fn.history,
                                        SessionContext[df[1]], fn.force_tool, fn.reply)
       IN  fn' = [fn EXCEPT !.done = TRUE, !.out = out, !.ui_raised = out.raised,
                            !.history_after =
                                HistoryAfterCall(fn.question, fn.history,
                                                 SessionContext[df[1]])]
    /\ UNCHANGED <<followup_history, chart_history, token_count, df, summary,
                   caption, notice, ask_shown, clear_shown, last>>

(* The "Analyze with Claude" handler: the call, the error check on the     *)
(* returned value, the save to the session state.  A tuple has no .get.    *)
AnalyzeWithClaude ==
    /\ fn.name = "summarize_with_claude"
    /\ ~fn.done
    /\ df # None
    /\ LET out == summarize_with_claude(<<ToString(df[1].nrows)>>, fn.reply)
       IN  IF out.raised # None
           THEN /\ fn' = [fn EXCEPT !.done = TRUE, !.out = out, !.ui_raised = out.raised]
                /\ UNCHANGED summary
           ELSE IF out.ret[1].pytype # "dict"
           THEN /\ fn' = [fn EXCEPT !.done = TRUE, !.out = out,
                                    !.ui_raised = Some("AttributeError")]
                /\ UNCHANGED summary
           ELSE LET claude_summary == out.ret[1].dict
                IN  /\ fn' = [fn EXCEPT !.done = TRUE, !.out = out]
                    /\ IF "error" \in DOMAIN claude_summary /\ claude_summary.error = TRUE
                       THEN UNCHANGED summary
                       ELSE summary' =
                                Some([claude_text |-> Get(claude_summary, "text"),
                                      next_steps |-> Get(claude_summary, "next_steps"),
                                      chart_1 |-> Get(claude_summary, "chart_1"),
                                      chart_2 |-> Get(claude_summary, "chart_2"),
                                      matplotlib_code |-> Get(claude_summary, "matplotlib_code")])
    /\ UNCHANGED <<followup_history, chart_history, token_count, df,
                   caption, notice, ask_shown, clear_shown, last>>

NextBoundary == CallFollowup \/ AnalyzeWithClaude

SpecBoundary == InitBoundary /\ [][NextBoundary]_vars

ReturnedDict(call) ==
    IF call.name = "ask_followup_question" THEN call.out.ret[1][1]
    ELSE call.out.ret[1].dict

(* C7: every failure of the LLM boundary is caught inside                  *)
(* summarize_with_claude / ask_followup_question and returned as a result  *)
(* with a message and error = true; no exception reaches the page script,  *)
(* and the script's use of the returned value raises none.                 *)
C7_BoundaryFailuresAreCaught ==
    (fn.done /\ ~fn.reply.ok) =>
        /\ fn.out.raised = None
        /\ fn.out.ret # None
        /\ ReturnedDict(fn).error = TRUE
        /\ ReturnedDict(fn).text # None
        /\ fn.ui_raised = None

C8_Message(e) ==
    IF "APIConnectionError" \in e.classes THEN ConnectionMessage
    ELSE IF "RateLimitError" \in e.classes THEN RateLimitMessage
    ELSE IF "APIStatusError" \in e.classes
         THEN (IF e.status_code = 400 THEN FollowupInvalidRequestMessage
               ELSE IF e.status_code = 401 THEN FollowupAuthMessage
               ELSE IF e.status_code >= 500 THEN UnavailableMessage
               ELSE GenericStatusMessage(e.status_code))
    ELSE UnexpectedMessage(e.text)

(* C8: a failed follow-up call returns the one fixed message of its        *)
(* failure class (connectivity, rate limit before status, 400, 401,        *)
(* >= 500, other status, anything else) with error = true and a token      *)
(* delta of 0.                                                             *)
C8_FollowupFailureClassified ==
    (fn.done /\ fn.name = "ask_followup_question" /\ ~fn.reply.ok) =>
        /\ fn.out.raised = None
        /\ fn.out.ret = Some(<<FollowupErrorResult(C8_Message(fn.reply)), 0>>)

(* C11: for a question without a code keyword, with one chart-noun set   *)
(* (viz_keywords) in both rules: a question keyword without both a chart   *)
(* noun and a new/another/different word gives false; otherwise the result *)
(* is true exactly when a creation keyword and a chart noun are present.   *)
C11_AgreesWithRules ==
    (fn.done /\ ~HasCodeKeyword(fn.question)) =>
        LET q == Lower(fn.question)
            has_question == AnyIn(question_keywords, q)
            has_chart_noun == AnyIn(viz_keywords, q)
            has_new == AnyIn(new_request_words, q)
            has_creation == AnyIn(creation_keywords, q)
        IN  fn.result = (IF has_question /\ ~(has_chart_noun /\ has_new)
                         THEN FALSE
                         ELSE has_creation /\ has_chart_noun)

(* ---------------------------------------------------------------------- *)
(* Specification SpecLimits: the session continued from conversations of   *)
(* 7 to 10 exchanges whose calls used up token totals around the warning   *)
(* and the hard limit.                                                     *)
(* ---------------------------------------------------------------------- *)
TextResult == [EmptyResult EXCEPT !.text = Some(<<"answer">>)]

RECURSIVE HistoryOfTurns(_)
HistoryOfTurns(k) ==
    IF k = 0 THEN <<>>
    ELSE Append(Append(HistoryOfTurns(k - 1), UserTurn(Q_another_plot)),
                AssistantTurn(TextResult))

ChartsOfTurns(k) == [i \in 1..k |-> Some(ChartRecord(Q_another_plot, TextResult))]

LimitTurns == (MaxTurns - 3)..MaxTurns

LimitTokens == {0, WarnTokens - 1, WarnTokens, WarnTokens + 1000, MaxTokens - 1, MaxTokens}

InitLimits ==
    \E k \in LimitTurns, t \in LimitTokens :
        /\ followup_history = HistoryOfTurns(k)
        /\ chart_history = ChartsOfTurns(k)
        /\ token_count = t
        /\ df \in { Some(d) : d \in Datasets }
        /\ summary = None
        /\ caption = Caption(k, t)
        /\ notice = Notice(k, t)
        /\ clear_shown = LimitReached(k, t)
        /\ ask_shown = AskPermitted(k, t)
        /\ last = PlainRun("run", AskPermitted(k, t))
        /\ fn = NoFn

SpecLimits == InitLimits /\ [][Next]_vars

(* C13: the page shows exactly one of three limit states, decided by the   *)
(* turn_count and token_count of its caption: the hard-stop error with the *)
(* Clear button and no Ask input iff turn_count >= 10 or token_count >=    *)
(* 25000; otherwise the warning, with Ask, iff turn_count >= 8 or          *)
(* token_count >= 20000; otherwise no notice, with Ask.  9 turns and 21000 *)
(* tokens give the warning and Ask.                                        *)
C13_ThreeLimitStates ==
    LET turns == caption.turn_count
        tokens == caption.token_count
        hard == turns >= 10 \/ tokens >= 25000
        near == turns >= 8 \/ tokens >= 20000
    IN  /\ notice \in {"error", "warning", "none"}
        /\ (notice = "error") <=> hard
        /\ (notice = "warning") <=> (~hard /\ near)
        /\ (notice = "none") <=> (~hard /\ ~near)
        /\ clear_shown <=> hard
        /\ ask_shown <=> ~hard
        /\ (turns = 9 /\ tokens = 21000) => (notice = "warning" /\ ask_shown)

(* C13 witness: at 9 turns and 21000 tokens the warning is shown and one   *)
(* more call was made.                                                     *)
C13_Witness ==
    /\ caption.turn_count = 9
    /\ caption.token_count = 21000
    /\ notice = "warning"
    /\ ask_shown
    /\ last.event = "ask"
    /\ last.request # None

RECURSIVE LastToolInput(_)
LastToolInput(blocks) ==
    IF Len(blocks) = 0 THEN None
    ELSE LET block == blocks[Len(blocks)]
         IN  IF block.type = "tool_use" THEN Some(block.input)
             ELSE LastToolInput(SubSeq(blocks, 1, Len(blocks) - 1))

FieldOrNull(input, field) == IF field \in DOMAIN input THEN input[field] ELSE None

(* C12: a successful follow-up call returns a result with the keys text,   *)
(* chart_1, chart_2, matplotlib_code and error for every response shape;   *)
(* the text is a string (empty when the tool invocation omits it or sets   *)
(* it to null), every other field the invocation omits or sets to null is  *)
(* null, chart_1 is kept when chart_2 is null, and no exception is raised. *)
C12_SuccessResultComplete ==
    (fn.done /\ fn.name = "ask_followup_question" /\ fn.reply.ok) =>
        /\ fn.out.raised = None
        /\ fn.out.ret # None
        /\ LET result == fn.out.ret[1][1]
               tool == LastToolInput(fn.reply.content)
           IN  /\ DOMAIN result = {"text", "chart_1", "chart_2", "matplotlib_code", "error"}
               /\ result.error = FALSE
               /\ result.text # None
               /\ tool # None =>
                      /\ result.chart_1 = FieldOrNull(tool[1], "chart_1")
                      /\ result.chart_2 = FieldOrNull(tool[1], "chart_2")
                      /\ result.matplotlib_code = FieldOrNull(tool[1], "matplotlib_code")
               /\ tool = None =>
                      /\ result.chart_1 = None
                      /\ result.chart_2 = None
                      /\ result.matplotlib_code = None

(* C14: the message list sent by ask_followup_question has length          *)
(* len(history) + 3: the priming user message that starts with df_context, *)
(* the priming assistant acknowledgement, the turns of history in stored   *)
(* order with role and content unchanged, and last the question as a user  *)
(* message; the history list passed in is the same after the call.         *)
C14_OutboundMessages ==
    (fn.done /\ fn.name = "ask_followup_question") =>
        /\ Len(fn.out.request) = 1
        /\ LET messages == fn.out.request[1].messages
               history == fn.history
               df_context == build_context_for_followup(df[1])
           IN  /\ Len(messages) = Len(history) + 3
               /\ messages[1].role = "user"
               /\ messages[1].content # None
               /\ Len(messages[1].content[1]) > Len(df_context)
               /\ SubSeq(messages[1].content[1], 1, Len(df_context)) = df_context
               /\ messages[2].role = "assistant"
               /\ messages[2].content = Some(<<PrimingAcknowledgement>>)
               /\ \A i \in 1..Len(history) : messages[i + 2] = history[i]
               /\ messages[Len(history) + 3] =
                      [role |-> "user", content |-> Some(fn.question)]
        /\ fn.history_after = fn.history

(* C14 witness: a call with two stored exchanges whose LLM request failed. *)
C14_Witness ==
    /\ fn.done
    /\ fn.name = "ask_followup_question"
    /\ Len(fn.history) = 4
    /\ ~fn.reply.ok
    /\ fn.out.request # None

ForcedTool(request) == request.tool_choice = [type |-> "tool", name |-> "generate_summary"]

AutoTool(request) == request.tool_choice.type = "auto"

C16_Delta(run) ==
    IF run.reply # None /\ run.reply[1].ok /\ run.raised = None
    THEN run.reply[1].usage.input_tokens + run.reply[1].usage.output_tokens
    ELSE 0

(* C16: token_count is a non-negative integer in every state, and an Ask   *)
(* adds to it input_tokens + output_tokens of the response when the call   *)
(* succeeded, 0 when the call failed, and nothing when no call was made.   *)
C16_TokenAccounting ==
    /\ [](token_count \in Nat)
    /\ [][last'.event = "ask" => token_count' = token_count + C16_Delta(last')]_vars

(* C16 witness: a successful call that took the counter past the limit.    *)
C16_Witness ==
    /\ last.event = "ask"
    /\ last.reply # None
    /\ last.reply[1].ok
    /\ token_count > MaxTokens

(* ---------------------------------------------------------------------- *)
(* Specification SpecContext: build_context_for_followup called twice on   *)
(* every dataset of at most MaxCols columns, each column object-typed or   *)
(* numeric, with few distinct values, one fewer than the threshold, or as  *)
(* many as the threshold.                                                  *)
(* ---------------------------------------------------------------------- *)
SampleRows == CategoricalThreshold

ColumnKinds ==
    << [dtype |-> "object",
       values |-> [i \in 1..SampleRows |-> IF i % 2 = 0 THEN "a" ELSE "b"]],
      [dtype |-> "object",
       values |-> [i \in 1..SampleRows |-> ToString(i)]],
      [dtype |-> "int64",
       values |-> [i \in 1..SampleRows |->
                      IF i < CategoricalThreshold THEN i ELSE CategoricalThreshold - 1]],
      [dtype |-> "float64",
       values |-> [i \in 1..SampleRows |-> i]] >>

DatasetOf(kinds) ==
    [nrows |-> SampleRows,
     columns |-> [i \in 1..Len(kinds) |->
                     [name |-> ToString(i), dtype |-> ColumnKinds[kinds[i]].dtype,
                      values |-> ColumnKinds[kinds[i]].values]]]

AllKinds == UNION { [1..n -> DOMAIN ColumnKinds] : n \in 1..MaxCols }

InitContext ==
    /\ SessionInit
    /\ \E kinds \in AllKinds : df = Some(DatasetOf(kinds))
    /\ fn = [name |-> "build_context_for_followup", calls |-> 0,
             first |-> <<>>, second |-> <<>>]

BuildContext ==
    /\ fn.name = "build_context_for_followup"
    /\ fn.calls = 0
    /\ fn' = [fn EXCEPT !.calls = 1, !.first = build_context_for_followup(df[1])]
    /\ UNCHANGED <<followup_history, chart_history, token_count, df, summary,
                   caption, notice, ask_shown, clear_shown, last>>

BuildContextAgain ==
    /\ fn.name = "build_context_for_followup"
    /\ fn.calls = 1
    /\ fn' = [fn EXCEPT !.calls = 2, !.second = build_context_for_followup(df[1])]
    /\ UNCHANGED <<followup_history, chart_history, token_count, df, summary,
                   caption, notice, ask_shown, clear_shown, last>>

NextContext == BuildContext \/ BuildContextAgain

SpecContext == InitContext /\ [][NextContext]_vars

(* The column names that the text gives a distribution for, in order.      *)
RECURSIVE DistributionNames(_)
DistributionNames(text) ==
    IF Len(text) < 2 THEN <<>>
    ELSE IF text[2] = " distribution:"
         THEN <<text[1]>> \o DistributionNames(Tail(text))
         ELSE DistributionNames(Tail(text))

C17_Eligible(col) ==
    col.dtype = "object" \/ Cardinality({ col.values[i] : i \in DOMAIN col.values }) < 20

RECURSIVE C17_FirstEligible(_, _)
C17_FirstEligible(cols, n) ==
    IF n = 0 \/ Len(cols) = 0 THEN <<>>
    ELSE IF C17_Eligible(Head(cols))
         THEN <<Head(cols).name>> \o C17_FirstEligible(Tail(cols), n - 1)
         ELSE C17_FirstEligible(Tail(cols), n)

(* C17: the text gives a value-count distribution for at most 3 columns,   *)
(* the first min(3, k) in column order of the k columns that are           *)
(* object-typed or have fewer than 20 distinct values, and a second call   *)
(* on the unchanged dataset returns the same text.                         *)
C17_AtMostThreeDistributions ==
    /\ fn.calls >= 1 =>
           /\ Len(DistributionNames(fn.first)) <= 3
           /\ DistributionNames(fn.first) = C17_FirstEligible(df[1].columns, 3)
    /\ fn.calls = 2 => fn.second = fn.first

(* C17 witness: five columns, the first not eligible, the other four       *)
(* eligible, distributions for columns 2, 3 and 4 only.                    *)
C17_Witness ==
    /\ fn.calls = 2
    /\ Len(df[1].columns) = 5
    /\ ~C17_Eligible(df[1].columns[1])
    /\ \A i \in 2..5 : C17_Eligible(df[1].columns[i])
    /\ DistributionNames(fn.first) = <<"2", "3", "4">>

====
